---- MODULE Spec2Model ----
(***************************************************************************)
(* Model of the agent orchestration engine of the MEX assistant backend:  *)
(* backend/insight_engine/query_processor.py (conversation driver,        *)
(* response parser, tool dispatcher, run_code) and                        *)
(* backend/insight_engine/gemini_service.py (text generation).            *)
(*                                                                         *)
(* Texts are sequences of lexemes (strings).  A lexeme stands for a run   *)
(* of characters of the Python string; the markers, quotes, parentheses   *)
(* and whitespace the code looks for are lexemes of their own.            *)
(***************************************************************************)
EXTENDS Integers, Sequences, FiniteSets, TLC

\* ---------------------------------------------------------------------
\* Program constants
\* ---------------------------------------------------------------------
\* a turn budget one short
MAX_TURNS_OneShort == 10 - 1

MAX_TURNS == 10

\* provided_data[:1000] in build_intermediate_prompt
PromptDataLimit == 1000

\* ---------------------------------------------------------------------
\* Bounds of the model
\* ---------------------------------------------------------------------
\* number of marker sections (ANSWER: ... / CALL_FUNCTION: ...) a model
\* response may carry after its thinking prefix
MaxSections == 2

\* ---------------------------------------------------------------------
\* Text helpers
\* ---------------------------------------------------------------------
\* Python's None for the optional texts
None == <<"<None>">>

WS == {" ", "\n", "\t"}

\* number of characters a lexeme stands for (only the long one matters)
CharLen(tok) == IF tok = "<2000 chars of output>" THEN 2000 ELSE 1

\* the lexeme left of a lexeme cut by a slice
Cut(tok) == IF tok = "<2000 chars of output>" THEN "<cut output>" ELSE tok

\* str.strip(): from the first to the last lexeme that is not whitespace
Strip(s) ==
    LET keep == {i \in 1..Len(s) : s[i] \notin WS}
    IN  IF keep = {} THEN <<>>
        ELSE SubSeq(s, CHOOSE i \in keep : \A j \in keep : i <= j,
                       CHOOSE i \in keep : \A j \in keep : i >= j)

\* str.lstrip()
LStrip(s) ==
    LET keep == {i \in 1..Len(s) : s[i] \notin WS}
    IN  IF keep = {} THEN <<>>
        ELSE SubSeq(s, CHOOSE i \in keep : \A j \in keep : i <= j, Len(s))

\* s[:n], n counted in characters
RECURSIVE TakeChars(_, _)
TakeChars(s, n) ==
    IF s = <<>> \/ n <= 0 THEN <<>>
    ELSE IF CharLen(Head(s)) <= n
         THEN <<Head(s)>> \o TakeChars(Tail(s), n - CharLen(Head(s)))
         ELSE <<Cut(Head(s))>>

\* index of the first lexeme of s at or after from that is in marks, 0 if none
FirstIn(s, marks, from) ==
    IF \E i \in from..Len(s) : s[i] \in marks
    THEN CHOOSE i \in from..Len(s) :
            s[i] \in marks /\ \A j \in from..(i - 1) : s[j] \notin marks
    ELSE 0

\* index of the last lexeme of s that is in marks, 0 if none
LastIn(s, marks) ==
    IF \E i \in 1..Len(s) : s[i] \in marks
    THEN CHOOSE i \in 1..Len(s) :
            s[i] \in marks /\ \A j \in (i + 1)..Len(s) : s[j] \notin marks
    ELSE 0

RECURSIVE Concat(_)
Concat(ss) == IF ss = <<>> THEN <<>> ELSE Head(ss) \o Concat(Tail(ss))

\* ---------------------------------------------------------------------
\* Response parser (process_merchant_question, "Parse LLM Response")
\* ---------------------------------------------------------------------
\* re.IGNORECASE: both spellings are the marker
AnswerMarks == {"ANSWER:", "answer:"}
CallMarks == {"CALL_FUNCTION:", "call_function:"}
ThinkingMarks == {"Thinking:", "thinking:"}

\* re.search(opener (.*?) (closers|$), s, DOTALL): leftmost opener, lazy
\* group up to the first closer after it or the end of the text
ReSearch(s, opener, closers) ==
    LET st == FirstIn(s, opener, 1)
        en == IF st = 0 THEN 0 ELSE FirstIn(s, closers, st + 1)
    IN  [matched |-> st # 0,
         start   |-> st,
         group   |-> IF st = 0 THEN <<>>
                     ELSE SubSeq(s, st + 1, IF en = 0 THEN Len(s) ELSE en - 1)]

\* ANSWER:(.*?)($|CALL_FUNCTION:|Thinking:)
answer_match(raw) == ReSearch(raw, AnswerMarks, CallMarks \cup ThinkingMarks)

\* CALL_FUNCTION:(.*?)(?:ANSWER:|$|Thinking:)
call_function_match(raw) == ReSearch(raw, CallMarks, AnswerMarks \cup ThinkingMarks)

\* a thinking part that ends at the answer only
ParseThinking_IgnoresCall(raw) ==
    LET am == answer_match(raw)
        thinking_part == Strip(SubSeq(raw, 1, IF am.matched THEN am.start - 1 ELSE Len(raw)))
        unlabelled ==
            IF thinking_part # <<>> /\ Head(thinking_part) \in ThinkingMarks
            THEN Strip(Tail(thinking_part))
            ELSE thinking_part
    IN  IF unlabelled = <<>> THEN <<"(No thinking provided)">> ELSE unlabelled

\* raw_response[:thinking_end_pos], label removed, placeholder when empty
ParseThinking(raw) ==
    LET am  == answer_match(raw)
        cm  == call_function_match(raw)
        e0  == Len(raw) + 1
        e1  == IF am.matched /\ am.start < e0 THEN am.start ELSE e0
        e2  == IF cm.matched /\ cm.start < e1 THEN cm.start ELSE e1
        thinking_part == Strip(SubSeq(raw, 1, e2 - 1))
        unlabelled ==
            IF thinking_part # <<>> /\ Head(thinking_part) \in ThinkingMarks
            THEN Strip(Tail(thinking_part))
            ELSE thinking_part
    IN  IF unlabelled = <<>> THEN <<"(No thinking provided)">> ELSE unlabelled

ParseAnswer(raw) ==
    LET am == answer_match(raw) IN IF am.matched THEN Strip(am.group) ELSE None

ParseCall(raw) ==
    LET cm == call_function_match(raw) IN IF cm.matched THEN Strip(cm.group) ELSE None

\* ---------------------------------------------------------------------
\* JSON texts (json.loads / json.dumps on lexemes)
\* ---------------------------------------------------------------------
\* complete "key":value members, keys that open a nested value, scalars
JsonPairs == {"\"labels\":[\"Mon\"]", "\"labels\":1", "\"data\":[5]", "\"datasets\":[]",
              "\"type\":\"chart\"", "\"chart_type\":\"bar\"",
              "\"chart_type\":\"line\"", "\"options\":{\"title\":\"Sales Data\"}",
              "\"options\":{\"title\":\"Trend\"}", "\"error\":null"}
JsonKeys == {"\"payload\":", "\"chart_data\":"}
JsonScalars == {"[1]", "5"}
JsonLexemes == JsonPairs \cup JsonKeys \cup JsonScalars \cup {"{", "}", ","}

KeyOf(tok) ==
    CASE tok \in {"\"labels\":[\"Mon\"]", "\"labels\":1"} -> "labels"
      [] tok = "\"data\":[5]" -> "data"
      [] tok = "\"datasets\":[]" -> "datasets"
      [] tok = "\"type\":\"chart\"" -> "type"
      [] tok \in {"\"chart_type\":\"bar\"", "\"chart_type\":\"line\""} -> "chart_type"
      [] tok = "\"payload\":" -> "payload"
      [] tok = "\"chart_data\":" -> "chart_data"
      [] tok = "\"error\":null" -> "error"
      [] OTHER -> "options"

\* nesting depth after the first i lexemes
RECURSIVE JsonDepth(_, _)
JsonDepth(s, i) ==
    IF i = 0 THEN 0
    ELSE JsonDepth(s, i - 1)
         + (IF s[i] = "{" THEN 1 ELSE IF s[i] = "}" THEN -1 ELSE 0)

\* which lexeme may follow which inside an object
JsonFollows(a, b) ==
    CASE a = "{" -> b \in JsonPairs \cup JsonKeys \cup {"}"}
      [] a = "," -> b \in JsonPairs \cup JsonKeys
      [] a \in JsonKeys -> b \in JsonScalars \cup {"{"}
      [] OTHER -> b \in {",", "}"}

\* json.loads: ok is FALSE for JSONDecodeError
JsonLoads(s) ==
    LET isObject ==
            /\ Len(s) >= 2
            /\ s[1] = "{"
            /\ \A i \in 1..Len(s) : s[i] \in JsonLexemes
            /\ \A i \in 1..(Len(s) - 1) : JsonDepth(s, i) > 0 /\ JsonFollows(s[i], s[i + 1])
            /\ JsonDepth(s, Len(s)) = 0
        isScalar == Len(s) = 1 /\ s[1] \in JsonScalars
    IN  [ok     |-> isObject \/ isScalar,
         isdict |-> isObject,
         keys   |-> IF isObject
                    THEN {KeyOf(s[i]) : i \in {j \in 2..Len(s) :
                              JsonDepth(s, j - 1) = 1 /\ s[j] \in JsonPairs \cup JsonKeys}}
                    ELSE {},
         pairs  |-> IF isObject
                    THEN {s[i] : i \in {j \in 2..Len(s) :
                              JsonDepth(s, j - 1) = 1 /\ s[j] \in JsonPairs}}
                    ELSE {}]

\* ---------------------------------------------------------------------
\* Tool-call fragments
\* ---------------------------------------------------------------------
ToolNames == {"run_code", "get_daily_report", "check_for_anomalies", "display_chart"}

\* lexemes that are one identifier
Words == ToolNames \cup {"make_chart", "x", "bar", "line", "pie", "Trend"}

\* argument keys, written name= in the fragment
ArgKeys == {"code_string=", "report_date=", "chart_type=", "chart_data=", "title=",
            "x_label=", "y_label="}

NoName == "<None>"

\* the identifier [a-zA-Z_][a-zA-Z0-9_]* a lexeme starts with
IdentOf(tok) ==
    CASE tok \in Words -> tok
      [] tok = "code_string=" -> "code_string"
      [] tok = "report_date=" -> "report_date"
      [] tok = "chart_type=" -> "chart_type"
      [] tok = "chart_data=" -> "chart_data"
      [] tok = "title=" -> "title"
      [] tok = "x_label=" -> "x_label"
      [] tok = "y_label=" -> "y_label"
      [] OTHER -> NoName

\* the quote characters a lexeme contains
QuoteChars(tok) ==
    CASE tok = "'" -> {"'"}
      [] tok = "\"" -> {"\""}
      [] tok \in JsonPairs \cup JsonKeys -> {"\""}
      [] OTHER -> {}

HasQuote(tok, qs) == QuoteChars(tok) \cap qs # {}

\* re.match(r"^\s*([a-zA-Z_][a-zA-Z0-9_]*)\s*\(", call_function_str)
func_match(s) ==
    LET t == LStrip(s)
        r == IF t = <<>> THEN <<>> ELSE LStrip(Tail(t))
    IN  IF t # <<>> /\ Head(t) \in Words /\ r # <<>> /\ Head(r) = "("
        THEN Head(t) ELSE NoName

FailurePayload_NoMarker(errType, msg) ==
    <<"--- Failed ---", "\n", "--- Error Type ---", "\n", errType, "\n",
      "--- Error Message ---", "\n", msg>>

\* "--- Execution Failed ---\n--- Error Type ---\n<type>\n--- Error Message ---\n<msg>"
FailurePayload(errType, msg) ==
    <<"--- Execution Failed ---", "\n", "--- Error Type ---", "\n", errType, "\n",
      "--- Error Message ---", "\n", msg>>

\* the lexemes that contain the characters "Execution Failed": the first
\* line of a failure payload, and the same words written by a snippet
MarkerLexemes == {"--- Execution Failed ---", "Execution Failed"}

\* "Execution Failed" in tool_result_string
HasFailedMarker(s) == \E i \in 1..Len(s) : s[i] \in MarkerLexemes

\* "\n".join(parts)
RECURSIVE JoinNL(_)
JoinNL(parts) ==
    IF parts = <<>> THEN <<>>
    ELSE IF Len(parts) = 1 THEN Head(parts)
    ELSE Head(parts) \o <<"\n">> \o JoinNL(Tail(parts))

\* index of the first lexeme at or after from that is not whitespace, 0 if none
FirstNonWs(s, from) ==
    IF \E i \in from..Len(s) : s[i] \notin WS
    THEN CHOOSE i \in from..Len(s) :
            s[i] \notin WS /\ \A j \in from..(i - 1) : s[j] \in WS
    ELSE 0

SetMin(S) == CHOOSE x \in S : \A y \in S : x <= y

\* str.replace of the two-lexeme run <<a, b>> by <<r>>
RECURSIVE ReplacePair(_, _, _, _)
ReplacePair(s, a, b, r) ==
    IF Len(s) < 2 THEN s
    ELSE IF s[1] = a /\ s[2] = b
         THEN <<r>> \o ReplacePair(Tail(Tail(s)), a, b, r)
         ELSE <<s[1]>> \o ReplacePair(Tail(s), a, b, r)

\* ---------------------------------------------------------------------
\* run_code
\* ---------------------------------------------------------------------
\* What exec() of a snippet can do: complete or raise an Exception, having
\* written some text to the captured stdout and stderr.
ExecOutcomes ==
    [raised : BOOLEAN,
     stdout : {<<>>, <<"2", "\n">>, <<"<2000 chars of output>">>},
     stderr : {<<>>},
     etype  : {"NameError"}]

run_code(code_string, ex) ==
    LET stdout == Strip(ex.stdout)
        stderr == Strip(ex.stderr)
    IN  IF ~ex.raised
        THEN Strip(JoinNL(<<
                <<"--- Execution Result ---">>,
                <<"--- stdout ---", "\n">> \o (IF stdout # <<>> THEN stdout ELSE <<"[No stdout]">>),
                <<"--- stderr ---", "\n">> \o (IF stderr # <<>> THEN stderr ELSE <<"[No stderr]">>)
             >>))
        ELSE Strip(JoinNL(
                <<<<"--- Execution Failed ---">>>>
                \o (IF stdout # <<>> THEN <<<<"--- stdout (before error) ---", "\n">> \o stdout>> ELSE <<>>)
                \o (IF stderr # <<>> THEN <<<<"--- stderr (before error) ---", "\n">> \o stderr>> ELSE <<>>)
                \o <<<<"--- Error Type ---", "\n", ex.etype>>,
                     <<"--- Error Message ---", "\n", "<exception message>">>>>))

\* ---------------------------------------------------------------------
\* execute_tool_call
\* ---------------------------------------------------------------------
\* code_string\s*=\s*(?P<quote>['"]|"{3}|'{3})(.*?)(?P=quote)\s*$  -> group(2) or None
code_match(params) ==
    LET closes(k) == {m \in (k + 1)..Len(params) :
                         params[m] = params[k] /\ \A j \in (m + 1)..Len(params) : params[j] \in WS}
        cands == {i \in 1..Len(params) :
                    /\ params[i] = "code_string="
                    /\ LET k == FirstNonWs(params, i + 1)
                       IN  k # 0 /\ params[k] \in {"'", "\""} /\ closes(k) # {}}
    IN  IF cands = {} THEN None
        ELSE LET k == FirstNonWs(params, SetMin(cands) + 1)
             IN  SubSeq(params, k + 1, SetMin(closes(k)) - 1)

\* a decoding that leaves the escape sequences as they are written
UnicodeEscape_Identity(s) == s

\* .encode('latin-1', 'backslashreplace').decode('unicode_escape')
UnicodeEscape(s) ==
    LET one(tok) == CASE tok = "\\n" -> "\n" [] tok = "\\t" -> "\t" [] OTHER -> tok
        t == [i \in 1..Len(s) |-> one(s[i])]
    IN  ReplacePair(ReplacePair(t, "\\", "'", "'"), "\\", "\"", "\"")

\* key\s*=\s*['\"]([^'\"]*)['\"]  -> group(1) or None
ArgValue(params, key) ==
    LET anyq == {"'", "\""}
        close(k) == {j \in (k + 1)..Len(params) : HasQuote(params[j], anyq)}
        cands == {i \in 1..Len(params) :
                    /\ params[i] = key
                    /\ LET k == FirstNonWs(params, i + 1)
                       IN  k # 0 /\ params[k] \in anyq /\ close(k) # {}}
    IN  IF cands = {} THEN None
        ELSE LET k == FirstNonWs(params, SetMin(cands) + 1)
             IN  SubSeq(params, k + 1, SetMin(close(k)) - 1)

\* the chart_data value: from the opening quote to the first unescaped
\* occurrence of the same quote character, unescaped; None when not found
ChartDataStr(params) ==
    LET starts == {i \in 1..Len(params) :
                     /\ params[i] = "chart_data="
                     /\ LET k == FirstNonWs(params, i + 1)
                        IN  k # 0 /\ params[k] \in {"'", "\""}}
    IN  IF starts = {} THEN None
        ELSE
          LET k == FirstNonWs(params, SetMin(starts) + 1)
              q == params[k]
              start_index == k + 1
              found == {j \in start_index..Len(params) :
                          HasQuote(params[j], {q}) /\ params[j - 1] # "\\"}
              fallback == {j \in start_index..Len(params) :
                             /\ params[j] = q
                             /\ LET n == FirstNonWs(params, j + 1)
                                IN  n = 0 \/ params[n] = ","}
              end_index ==
                  IF found # {} THEN SetMin(found)
                  ELSE IF params[Len(params)] = q THEN Len(params)
                  ELSE IF fallback # {} THEN SetMin(fallback)
                  ELSE 0
          IN  IF end_index # 0 /\ end_index > start_index
              THEN ReplacePair(ReplacePair(SubSeq(params, start_index, end_index - 1),
                                           "\\", q, q), "\\", "\\", "\\")
              ELSE None

\* a handler that builds the command from whatever chart_data holds
display_chart_NoValidation(params) ==
    LET chart_data_str == ChartDataStr(params)
    IN  IF chart_data_str = None
        THEN FailurePayload("ParameterError", "display_chart: Missing required 'chart_type' or could not extract 'chart_data'.")
        ELSE <<"{", "\"type\":\"chart\"", ",", "\"payload\":", "{", "\"chart_type\":\"bar\"",
               ",", "\"chart_data\":">> \o chart_data_str
             \o <<",", "\"options\":{\"title\":\"Sales Data\"}", "}", "}">>

\* the display_chart handler
display_chart(params) ==
    LET chart_type == ArgValue(params, "chart_type=")
        title == ArgValue(params, "title=")
        chart_data_str == ChartDataStr(params)
        obj == JsonLoads(chart_data_str)
    IN  IF chart_type = None \/ chart_type = <<>> \/ chart_data_str = None
        THEN FailurePayload("ParameterError", "display_chart: Missing required 'chart_type' or could not extract 'chart_data'.")
        ELSE IF chart_type \notin {<<"line">>, <<"bar">>}
        THEN FailurePayload("ParameterError", "display_chart: Unsupported chart_type.")
        ELSE IF ~obj.ok \/ ~obj.isdict
                \/ ~("labels" \in obj.keys /\ ("data" \in obj.keys \/ "datasets" \in obj.keys))
        THEN FailurePayload("ParameterError", "display_chart: Invalid JSON in 'chart_data'.")
        ELSE <<"{", "\"type\":\"chart\"", ",", "\"payload\":", "{",
               IF chart_type = <<"bar">> THEN "\"chart_type\":\"bar\"" ELSE "\"chart_type\":\"line\"",
               ",", "\"chart_data\":">> \o chart_data_str
             \o <<",",
               IF title = None \/ title = <<>>
               THEN "\"options\":{\"title\":\"Sales Data\"}"
               ELSE "\"options\":{\"title\":\"Trend\"}",
               "}", "}">>

\* The part of execute_tool_call that depends on the fragment alone: the
\* function name, the parameter block and the arguments of the named tool.
\* kind "return" carries the payload returned without calling a collaborator;
\* the other kinds name the collaborator that is called next.  branch is the
\* tool branch of step 3 that was entered, "none" when none was.
ToolPlan(call_function_str) ==
    LET s == Strip(call_function_str)
        func_name == IF s = <<>> THEN NoName ELSE IdentOf(Head(s))
        open_paren_index == FirstIn(s, {"("}, 2)
        close_paren_index == LastIn(s, {")"})
        params_str == Strip(SubSeq(s, open_paren_index + 1, close_paren_index - 1))
        code_to_run_raw == code_match(params_str)
        code_to_run == Strip(UnicodeEscape(code_to_run_raw))
        Return(payload, branch) ==
            [kind |-> "return", payload |-> payload, code |-> None, branch |-> branch]
    IN  IF func_name = NoName
        THEN Return(FailurePayload("FormatError", "Could not extract function name"), "none")
        ELSE IF open_paren_index = 0 \/ close_paren_index = 0
                \/ close_paren_index < open_paren_index
        THEN Return(FailurePayload("FormatError", "Mismatched or missing parentheses in tool call"),
                    "none")
        ELSE IF func_name = "run_code"
        THEN IF code_to_run_raw = None
             THEN Return(FailurePayload("ParameterError", "run_code: Missing or malformed 'code_string'."),
                         "run_code")
             ELSE IF code_to_run = <<>>
             THEN Return(FailurePayload("ParameterError", "run_code: Extracted code_string is empty after processing."),
                         "run_code")
             ELSE [kind |-> "run_code", payload |-> None, code |-> code_to_run,
                   branch |-> "run_code"]
        ELSE IF func_name \in {"get_daily_report", "check_for_anomalies"}
        THEN [kind |-> func_name, payload |-> None, code |-> None, branch |-> func_name]
        ELSE IF func_name = "display_chart"
        THEN Return(display_chart(params_str), "display_chart")
        ELSE Return(FailurePayload("ToolNotFound", "Unknown function tool called"), "none")

\* The call of the collaborator and the payload made of what it does: ex is
\* what the snippet, generate_daily_report or detect_anomalies does in this
\* call; an exception of a collaborator is caught by the general handler.
RunTool(plan, ex) ==
    CASE plan.kind = "return" -> plan.payload
      [] plan.kind = "run_code" -> run_code(plan.code, ex)
      [] plan.kind = "get_daily_report" ->
            IF ex.raised
            THEN FailurePayload(ex.etype, "Error executing tool 'get_daily_report'")
            ELSE <<"{", "\"error\":null", "}">>
      [] OTHER ->
            IF ex.raised
            THEN FailurePayload(ex.etype, "Error executing tool 'check_for_anomalies'")
            ELSE <<"[1]">>

execute_tool_call_UnknownIsFormatError(call_function_str, ex) ==
    LET r == RunTool(ToolPlan(call_function_str), ex)
    IN  IF r = FailurePayload("ToolNotFound", "Unknown function tool called")
        THEN FailurePayload("FormatError", "Unknown function tool called")
        ELSE r

execute_tool_call(call_function_str, ex) == RunTool(ToolPlan(call_function_str), ex)

\* ---------------------------------------------------------------------
\* gemini_service.generate_text
\* ---------------------------------------------------------------------
\* api is what the Gemini client does in this call: "text" (a response
\* with parts), "blocked" (no parts), "error" (generate_content raises),
\* "unavailable" (the module has no model).  Every path returns a text.
generate_text(api) ==
    [raised |-> FALSE,
     text   |-> CASE api.kind = "unavailable" -> <<"AI service is unavailable.">>
                  [] api.kind = "blocked" -> <<"AI could not generate a response for this request.">>
                  [] api.kind = "error" -> <<"Error generating text: ", "<exception text>">>
                  [] OTHER -> api.text]

\* ---------------------------------------------------------------------
\* Inputs: what the model may answer
\* ---------------------------------------------------------------------
Prefixes == {<<>>, <<"Thinking:", " ", "plan", "\n">>}

AnswerTexts == {<<>>, <<" ", "Your sales were $120.", "\n">>}

GoodChart ==
    <<" ", "display_chart", "(", "chart_type=", "'", "bar", "'", ",", "chart_data=", "'",
      "{", "\"labels\":[\"Mon\"]", ",", "\"data\":[5]", "}", "'", ")">>

NoLabelsChart ==
    <<" ", "display_chart", "(", "chart_type=", "'", "bar", "'", ",", "chart_data=", "'",
      "{", "\"data\":[5]", "}", "'", ")">>

Fragments ==
    {<<" ", "run_code", "(", "code_string=", "'", "x", "'", ")", "\n">>,
     <<" ", "run_code", "(", "code_string=", "'", "x", "'">>,
     <<" ", "make_chart", "(", ")">>,
     <<" ", "display_chart">>,
     GoodChart,
     NoLabelsChart}

Sections ==
    {<<"ANSWER:">> \o a : a \in AnswerTexts} \cup {<<"CALL_FUNCTION:">> \o f : f \in Fragments}

Responses ==
    {p \o Concat(ss) : p \in Prefixes,
                       ss \in UNION {[1..n -> Sections] : n \in 0..MaxSections}}

TextApis(R) == {[kind |-> "text", text |-> r] : r \in R}

FailedApis == {[kind |-> k, text |-> <<>>] : k \in {"blocked", "error", "unavailable"}}

\* ---------------------------------------------------------------------
\* process_merchant_question
\* ---------------------------------------------------------------------
VARIABLES
    pc,                 \* "call_llm", "parse", "process", "done"
    turn,               \* the loop variable of for turn in range(MAX_TURNS)
    current_thinking,
    provided_data,
    prompt,             \* the prompt of the latest model call
    raw_response,
    final_answer_text,
    call_function_str,
    tool_result,        \* tool_result_string / chart_command_str of the latest dispatch
    gen_status,         \* what the Gemini client did in the latest model call
    llm_calls,          \* calls of gemini_service.generate_text made so far
    tool_calls,         \* calls of execute_tool_call made so far
    response            \* the values returned to the caller, in order

\* run_code, as run by the requests the server handles in its threads
VARIABLES
    sys_stdout,         \* what sys.stdout is bound to: "console" or the call
                        \* whose output_capture it is
    sys_stderr,         \* likewise sys.stderr and error_capture
    injected,           \* the attributes snippets have set on the module
                        \* objects every call injects (pd, np, json, loader)
    rc_pc,              \* per call: its position in run_code
    old_stdout,         \* per call: what redirect_stdout will restore
    old_stderr,         \* per call: what redirect_stderr will restore
    output_capture,     \* per call: the text of its StringIO for stdout
    error_capture,      \* per call: the text of its StringIO for stderr
    execution_locals,   \* per call: the names bound in its locals dict
    snippet,            \* per call: what its snippet did so far
    observed,           \* per call: what its snippet found when it started
    rc_result           \* per call: the string run_code returned

\* execute_tool_call, called on its own
VARIABLES
    d_pc,               \* "idle", "called", "returned", "propagated"
    d_call,             \* the call_function_str argument
    d_ex,               \* what the handler's collaborator does in this call
    d_branch,           \* the tool branch that was entered, "none" if none
    d_code,             \* the code_string run_code was called with, if it was
    d_result            \* the string returned

driver_vars == <<pc, turn, current_thinking, provided_data, prompt, raw_response,
                 final_answer_text, call_function_str, tool_result, gen_status,
                 llm_calls, tool_calls, response>>

sandbox_vars == <<sys_stdout, sys_stderr, injected, rc_pc, old_stdout, old_stderr,
                  output_capture, error_capture, execution_locals, snippet,
                  observed, rc_result>>

dispatch_vars == <<d_pc, d_call, d_ex, d_branch, d_code, d_result>>

\* the parsing of one model text, on its own
VARIABLES
    p_pc,               \* "idle", "received", "parsed"
    p_raw,              \* raw_response
    p_thinking,         \* current_thinking
    p_answer,           \* final_answer_text
    p_call              \* call_function_str

parser_vars == <<p_pc, p_raw, p_thinking, p_answer, p_call>>

vars == <<driver_vars, sandbox_vars, dispatch_vars, parser_vars>>

\* the run_code calls that may be in progress at the same time
Calls == {"A", "B"}

\* no run_code call has started
InitSandbox ==
    /\ sys_stdout = "console"
    /\ sys_stderr = "console"
    /\ injected = {}
    /\ rc_pc = [c \in Calls |-> "idle"]
    /\ old_stdout = [c \in Calls |-> "console"]
    /\ old_stderr = [c \in Calls |-> "console"]
    /\ output_capture = [c \in Calls |-> <<>>]
    /\ error_capture = [c \in Calls |-> <<>>]
    /\ execution_locals = [c \in Calls |-> {}]
    /\ snippet = [c \in Calls |-> [steps |-> 0, fault |-> "none", caps |-> {}]]
    /\ observed = [c \in Calls |-> [names |-> {}, injected |-> {}, after |-> {}]]
    /\ rc_result = [c \in Calls |-> None]

\* no text has been received
InitParser ==
    /\ p_pc = "idle"
    /\ p_raw = None
    /\ p_thinking = <<"No thinking yet.">>
    /\ p_answer = None
    /\ p_call = None

\* execute_tool_call has not been called
InitDispatch ==
    /\ d_pc = "idle"
    /\ d_call = None
    /\ d_ex = [raised |-> FALSE, stdout |-> <<>>, stderr |-> <<>>, etype |-> "NameError"]
    /\ d_branch = "none"
    /\ d_code = None
    /\ d_result = None

NoPrompt == [kind |-> "none", previous_thinking |-> None, provided_data |-> None]

build_initial_prompt ==
    [kind |-> "initial", previous_thinking |-> None, provided_data |-> None]

\* a prompt that shows the thinking the request started with
build_intermediate_prompt_FirstThinking(previous_thinking, data) ==
    [kind |-> "intermediate",
     previous_thinking |-> <<"No thinking yet.">>,
     provided_data |-> TakeChars(data, PromptDataLimit)]

\* a prompt that keeps showing the placeholder instead of the latest data
build_intermediate_prompt_Stale(previous_thinking, data) ==
    [kind |-> "intermediate",
     previous_thinking |-> previous_thinking,
     provided_data |-> <<"Initial state. No data provided yet.">>]

\* previous_thinking and provided_data[:1000] are the parts of the prompt
\* that change from turn to turn
build_intermediate_prompt(previous_thinking, data) ==
    [kind |-> "intermediate",
     previous_thinking |-> previous_thinking,
     provided_data |-> TakeChars(data, PromptDataLimit)]

Answer(text) == [answer |-> text, chart_command |-> None]

ServiceErrorResponse == Answer(<<"Sorry, error reaching AI service: ", "<exception text>">>)

\* an ambiguous response that leaves the thinking out
AmbiguousResponse_NoThinking(thinking) ==
    Answer(<<"(Couldn't determine next step...)">>)

AmbiguousResponse(thinking) ==
    Answer(<<"Thinking: ">> \o thinking \o <<"\n", "(Couldn't determine next step...)">>)

StuckResponse(thinking) ==
    Answer(<<"Sorry, I got stuck processing that. Last thought: ">> \o thinking)

Init ==
    /\ pc = "call_llm"
    /\ turn = 0
    /\ current_thinking = <<"No thinking yet.">>
    /\ provided_data = <<"Initial state. No data provided yet.">>
    /\ prompt = NoPrompt
    /\ raw_response = None
    /\ final_answer_text = None
    /\ call_function_str = None
    /\ tool_result = None
    /\ gen_status = "none"
    /\ llm_calls = 0
    /\ tool_calls = 0
    /\ response = <<>>
    /\ InitSandbox
    /\ InitDispatch
    /\ InitParser

\* a loop bound that lets one more turn through
RangeHasNext_OffByOne(t) == t <= MAX_TURNS

\* range(MAX_TURNS) yields another turn
RangeHasNext(t) == t < MAX_TURNS

\* a turn that calls the model a second time and keeps the second text
CallLLM_Retries(apis) ==
    /\ pc = "call_llm"
    /\ RangeHasNext(turn)
    /\ prompt' = IF turn = 0 THEN build_initial_prompt
                 ELSE build_intermediate_prompt(current_thinking, provided_data)
    /\ \E api \in apis :
          LET r == generate_text(api)
          IN  /\ gen_status' = api.kind
              /\ llm_calls' = llm_calls + 2
              /\ IF r.raised
                 THEN /\ response' = Append(response, ServiceErrorResponse)
                      /\ pc' = "done"
                      /\ UNCHANGED raw_response
                 ELSE /\ raw_response' = r.text
                      /\ pc' = "parse"
                      /\ UNCHANGED response
    /\ UNCHANGED <<turn, current_thinking, provided_data, final_answer_text,
                   call_function_str, tool_result, tool_calls>>
    /\ UNCHANGED <<sandbox_vars, dispatch_vars, parser_vars>>

\* build the prompt and call the model (one loop iteration up to the parser)
CallLLM(apis) ==
    /\ pc = "call_llm"
    /\ RangeHasNext(turn)
    /\ prompt' = IF turn = 0 THEN build_initial_prompt
                 ELSE build_intermediate_prompt(current_thinking, provided_data)
    /\ \E api \in apis :
          LET r == generate_text(api)
          IN  /\ gen_status' = api.kind
              /\ llm_calls' = llm_calls + 1
              /\ IF r.raised
                 THEN /\ response' = Append(response, ServiceErrorResponse)
                      /\ pc' = "done"
                      /\ UNCHANGED raw_response
                 ELSE /\ raw_response' = r.text
                      /\ pc' = "parse"
                      /\ UNCHANGED response
    /\ UNCHANGED <<turn, current_thinking, provided_data, final_answer_text,
                   call_function_str, tool_result, tool_calls>>
    /\ UNCHANGED <<sandbox_vars, dispatch_vars, parser_vars>>

ParseLLMResponse ==
    /\ pc = "parse"
    /\ current_thinking' = ParseThinking(raw_response)
    /\ final_answer_text' = ParseAnswer(raw_response)
    /\ call_function_str' = ParseCall(raw_response)
    /\ pc' = "process"
    /\ UNCHANGED <<turn, provided_data, prompt, raw_response, tool_result, gen_status,
                   llm_calls, tool_calls, response>>
    /\ UNCHANGED <<sandbox_vars, dispatch_vars, parser_vars>>

\* what execute_tool_call may return for a fragment
ToolResults(call, execs) ==
    LET plan == ToolPlan(call) IN {RunTool(plan, ex) : ex \in execs}

\* a chart path that drops the failure note
ChartPathResponse_NoNote(answer, chart_command_str) ==
    LET obj == JsonLoads(chart_command_str)
    IN  IF obj.ok /\ obj.isdict /\ "\"type\":\"chart\"" \in obj.pairs
        THEN [answer |-> answer, chart_command |-> chart_command_str]
        ELSE Answer(answer)

\* the response of the chart path, from the string display_chart returned
ChartPathResponse(answer, chart_command_str) ==
    LET obj == JsonLoads(chart_command_str)
    IN  IF ~obj.ok
        THEN Answer(answer \o <<"\n", "\n", "[Chart display failed: Command parse error]">>)
        ELSE IF obj.isdict /\ "\"type\":\"chart\"" \in obj.pairs
        THEN [answer |-> answer, chart_command |-> chart_command_str]
        ELSE Answer(answer \o <<"\n", "\n", "[Chart display failed: Invalid command format]">>)

\* the answer-with-call turn dispatching whatever tool the call names
AnswerWithCall_DispatchesAny(execs) ==
    /\ pc = "process"
    /\ final_answer_text # None /\ call_function_str # None
    /\ \E chart_command_str \in ToolResults(call_function_str, execs) :
           /\ tool_result' = chart_command_str
           /\ tool_calls' = tool_calls + 1
           /\ response' = Append(response,
                                 ChartPathResponse(final_answer_text, chart_command_str))
    /\ pc' = "done"
    /\ UNCHANGED <<turn, current_thinking, provided_data, prompt, raw_response,
                   final_answer_text, call_function_str, gen_status, llm_calls>>
    /\ UNCHANGED <<sandbox_vars, dispatch_vars, parser_vars>>

\* ANSWER and CALL_FUNCTION both found
AnswerWithCall(execs) ==
    /\ pc = "process"
    /\ final_answer_text # None /\ call_function_str # None
    /\ IF func_match(call_function_str) = "display_chart"
       THEN \E chart_command_str \in ToolResults(call_function_str, execs) :
                  /\ tool_result' = chart_command_str
                  /\ tool_calls' = tool_calls + 1
                  /\ response' = Append(response,
                                        ChartPathResponse(final_answer_text, chart_command_str))
       ELSE /\ response' = Append(response, Answer(final_answer_text))
            /\ UNCHANGED <<tool_result, tool_calls>>
    /\ pc' = "done"
    /\ UNCHANGED <<turn, current_thinking, provided_data, prompt, raw_response,
                   final_answer_text, call_function_str, gen_status, llm_calls>>
    /\ UNCHANGED <<sandbox_vars, dispatch_vars, parser_vars>>

\* an answer-only turn that goes on to another turn instead of returning
AnswerOnly_Continues ==
    /\ pc = "process"
    /\ final_answer_text # None /\ call_function_str = None
    /\ provided_data' = final_answer_text
    /\ turn' = turn + 1
    /\ pc' = "call_llm"
    /\ prompt' = NoPrompt
    /\ raw_response' = None
    /\ final_answer_text' = None
    /\ call_function_str' = None
    /\ gen_status' = "none"
    /\ UNCHANGED <<current_thinking, tool_result, llm_calls, tool_calls, response>>
    /\ UNCHANGED <<sandbox_vars, dispatch_vars, parser_vars>>

\* only ANSWER found
AnswerOnly ==
    /\ pc = "process"
    /\ final_answer_text # None /\ call_function_str = None
    /\ response' = Append(response, Answer(final_answer_text))
    /\ pc' = "done"
    /\ UNCHANGED <<turn, current_thinking, provided_data, prompt, raw_response,
                   final_answer_text, call_function_str, tool_result, gen_status,
                   llm_calls, tool_calls>>
    /\ UNCHANGED <<sandbox_vars, dispatch_vars, parser_vars>>

\* a tool-call-only turn that dispatches and stays where it is, so that the
\* same turn dispatches again before any model call
ToolCallOnly_Redispatch(execs) ==
    /\ pc = "process"
    /\ final_answer_text = None /\ call_function_str # None
    /\ tool_calls < MAX_TURNS + 2
    /\ \E tool_result_string \in ToolResults(call_function_str, execs) :
          /\ tool_result' = tool_result_string
          /\ provided_data' = tool_result_string
    /\ tool_calls' = tool_calls + 1
    /\ UNCHANGED <<pc, turn, current_thinking, prompt, raw_response, final_answer_text,
                   call_function_str, gen_status, llm_calls, response>>
    /\ UNCHANGED <<sandbox_vars, dispatch_vars, parser_vars>>

\* a tool-call-only turn that gives up when the tool fails
ToolCallOnly_FatalOnFailure(execs) ==
    /\ pc = "process"
    /\ final_answer_text = None /\ call_function_str # None
    /\ \E tool_result_string \in ToolResults(call_function_str, execs) :
          /\ tool_result' = tool_result_string
          /\ provided_data' = tool_result_string
          /\ IF HasFailedMarker(tool_result_string)
             THEN /\ response' = Append(response, Answer(tool_result_string))
                  /\ pc' = "done"
                  /\ UNCHANGED <<turn, prompt, raw_response, final_answer_text,
                                 call_function_str, gen_status>>
             ELSE /\ turn' = turn + 1
                  /\ pc' = "call_llm"
                  /\ prompt' = NoPrompt
                  /\ raw_response' = None
                  /\ final_answer_text' = None
                  /\ call_function_str' = None
                  /\ gen_status' = "none"
                  /\ UNCHANGED response
    /\ tool_calls' = tool_calls + 1
    /\ UNCHANGED <<current_thinking, llm_calls>>
    /\ UNCHANGED <<sandbox_vars, dispatch_vars, parser_vars>>

\* only CALL_FUNCTION found: both branches of the "Execution Failed" test
\* assign the result to provided_data and fall through to the next iteration
ToolCallOnly(execs) ==
    /\ pc = "process"
    /\ final_answer_text = None /\ call_function_str # None
    /\ \E tool_result_string \in ToolResults(call_function_str, execs) :
              /\ tool_result' = tool_result_string
              /\ provided_data' = IF HasFailedMarker(tool_result_string)
                                  THEN tool_result_string
                                  ELSE tool_result_string
    /\ tool_calls' = tool_calls + 1
    /\ turn' = turn + 1
    /\ pc' = "call_llm"
    \* the iteration ends: its locals are dead, each is assigned again
    \* before the next iteration reads it
    /\ prompt' = NoPrompt
    /\ raw_response' = None
    /\ final_answer_text' = None
    /\ call_function_str' = None
    /\ gen_status' = "none"
    /\ UNCHANGED <<current_thinking, llm_calls, response>>
    /\ UNCHANGED <<sandbox_vars, dispatch_vars, parser_vars>>

\* neither ANSWER nor CALL_FUNCTION found
Neither ==
    /\ pc = "process"
    /\ final_answer_text = None /\ call_function_str = None
    /\ response' = Append(response, AmbiguousResponse(current_thinking))
    /\ pc' = "done"
    /\ UNCHANGED <<turn, current_thinking, provided_data, prompt, raw_response,
                   final_answer_text, call_function_str, tool_result, gen_status,
                   llm_calls, tool_calls>>
    /\ UNCHANGED <<sandbox_vars, dispatch_vars, parser_vars>>

\* the for loop ran out of turns
MaxTurnsReached ==
    /\ pc = "call_llm"
    /\ ~RangeHasNext(turn)
    /\ response' = Append(response, StuckResponse(current_thinking))
    /\ pc' = "done"
    /\ UNCHANGED <<turn, current_thinking, provided_data, prompt, raw_response,
                   final_answer_text, call_function_str, tool_result, gen_status,
                   llm_calls, tool_calls>>
    /\ UNCHANGED <<sandbox_vars, dispatch_vars, parser_vars>>

Next ==
    \/ CallLLM(TextApis(Responses) \cup FailedApis)
    \/ ParseLLMResponse
    \/ AnswerWithCall(ExecOutcomes)
    \/ AnswerOnly
    \/ ToolCallOnly(ExecOutcomes)
    \/ Neither
    \/ MaxTurnsReached

Spec == Init /\ [][Next]_vars

\* ---------------------------------------------------------------------
\* Scenario E: every turn yields only a failing tool call
\* ---------------------------------------------------------------------
FailingExecs == {ex \in ExecOutcomes : ex.raised}

\* the responses with a tool call, without an answer, whose dispatch fails
FailingCallResponses ==
    {r \in Responses :
        /\ \A i \in 1..Len(r) : r[i] \notin AnswerMarks
        /\ \E i \in 1..Len(r) : r[i] \in CallMarks
        /\ \A res \in ToolResults(ParseCall(r), FailingExecs) : HasFailedMarker(res)}

NextE ==
    \/ CallLLM(TextApis(FailingCallResponses))
    \/ ParseLLMResponse
    \/ ToolCallOnly(FailingExecs)
    \/ MaxTurnsReached

SpecE == Init /\ [][NextE]_vars

\* ---------------------------------------------------------------------
\* run_code under the threaded server
\* ---------------------------------------------------------------------
\* app.run(debug=True) serves each request in a thread of its own, so two
\* requests' run_code calls interleave at every statement. sys.stdout and
\* sys.stderr are attributes of the one sys module of the process, and the
\* module objects put into execution_globals are the ones of the process.

\* the most statements of a snippet that are followed
MaxSnippetSteps == 1

\* the keys of execution_globals['__builtins__']
SafeBuiltins ==
    {"print", "len", "round", "range", "int", "float", "str", "list", "dict",
     "set", "tuple", "bool", "max", "min", "sum", "abs", "any", "all", "sorted",
     "isinstance", "getattr", "hasattr", "Exception", "__import__",
     "ValueError", "TypeError", "KeyError", "IndexError", "AttributeError",
     "True", "False", "None", "zip", "map", "filter", "enumerate",
     "repr", "dir", "id", "type"}

\* the module objects every call puts into execution_globals
InjectedModules == {"pd", "np", "json", "loader", "datetime"}

\* what a module of the standard library lets its importer do
CapabilityOf(module) ==
    CASE module = "os" -> {"file", "process"}
      [] module = "socket" -> {"network"}
      [] OTHER -> {}

\* the modules a snippet imports in the runs followed
ImportedModules == {"os", "socket"}

\* the faults that end a snippet in the runs followed, "none" for a normal
\* end; SystemExit (sys.exit()) is a BaseException but not an Exception
SnippetOutcomes == {"none", "NameError", "SystemExit"}

\* the exception types that "except Exception" catches
ExceptionTypes == {"NameError"}

\* the name the snippet of call c binds
NameOf(c) == IF c = "A" THEN "x_of_A" ELSE "x_of_B"

\* the text the snippet of call c writes
OutOf(c) == IF c = "A" THEN "out of A" ELSE "out of B"
ErrOf(c) == IF c = "A" THEN "err of A" ELSE "err of B"

\* a write to the stream a sys attribute is bound to: text ends up in the
\* StringIO of the call the attribute is bound to, or on the console
WriteTo(target, capture, text) ==
    IF target = "console" THEN capture
    ELSE [capture EXCEPT ![target] = @ \o text]

\* output_capture = io.StringIO() ... execution_locals = {}, which no
\* other thread sees, and redirect_stdout(output_capture).__enter__: save
\* what sys.stdout is bound to and rebind it
RunCodeStart_SharedLocals(c) ==
    /\ rc_pc[c] = "idle"
    /\ output_capture' = [output_capture EXCEPT ![c] = <<>>]
    /\ error_capture' = [error_capture EXCEPT ![c] = <<>>]
    /\ execution_locals' = [execution_locals EXCEPT ![c] = UNION {execution_locals[d] : d \in Calls}]
    /\ old_stdout' = [old_stdout EXCEPT ![c] = sys_stdout]
    /\ sys_stdout' = c
    /\ rc_pc' = [rc_pc EXCEPT ![c] = "enter_stderr"]
    /\ UNCHANGED <<sys_stderr, injected, old_stderr, snippet, observed, rc_result>>
    /\ UNCHANGED <<driver_vars, dispatch_vars, parser_vars>>

RunCodeStart(c) ==
    /\ rc_pc[c] = "idle"
    /\ output_capture' = [output_capture EXCEPT ![c] = <<>>]
    /\ error_capture' = [error_capture EXCEPT ![c] = <<>>]
    /\ execution_locals' = [execution_locals EXCEPT ![c] = {}]
    /\ old_stdout' = [old_stdout EXCEPT ![c] = sys_stdout]
    /\ sys_stdout' = c
    /\ rc_pc' = [rc_pc EXCEPT ![c] = "enter_stderr"]
    /\ UNCHANGED <<sys_stderr, injected, old_stderr, snippet, observed, rc_result>>
    /\ UNCHANGED <<driver_vars, dispatch_vars, parser_vars>>

\* redirect_stderr(error_capture).__enter__, and exec(code_string,
\* execution_globals, execution_locals) begins: what the snippet finds is
\* the names of its locals and the state of the injected modules, and it
\* does so after the calls that are over
RedirectStderr(c) ==
    /\ rc_pc[c] = "enter_stderr"
    /\ old_stderr' = [old_stderr EXCEPT ![c] = sys_stderr]
    /\ sys_stderr' = c
    /\ observed' = [observed EXCEPT ![c] =
                        [names |-> execution_locals[c],
                         injected |-> injected,
                         after |-> {d \in Calls : rc_pc[d] \in {"returned", "propagated"}}]]
    /\ rc_pc' = [rc_pc EXCEPT ![c] = "running"]
    /\ UNCHANGED <<sys_stdout, injected, old_stdout, output_capture, error_capture,
                   execution_locals, snippet, rc_result>>
    /\ UNCHANGED <<driver_vars, dispatch_vars, parser_vars>>

\* the snippet can run one more statement
SnippetRuns(c) == rc_pc[c] = "running" /\ snippet[c].steps < MaxSnippetSteps

\* print(...): a write to whatever sys.stdout is bound to now
SnippetPrint(c) ==
    /\ SnippetRuns(c)
    /\ "print" \in SafeBuiltins
    /\ output_capture' = WriteTo(sys_stdout, output_capture, <<OutOf(c), "\n">>)
    /\ snippet' = [snippet EXCEPT ![c].steps = @ + 1]
    /\ UNCHANGED <<sys_stdout, sys_stderr, injected, rc_pc, old_stdout, old_stderr,
                   error_capture, execution_locals, observed, rc_result>>
    /\ UNCHANGED <<driver_vars, dispatch_vars, parser_vars>>

\* a warning of pandas or numpy: a write to whatever sys.stderr is bound to
SnippetWarn(c) ==
    /\ SnippetRuns(c)
    /\ error_capture' = WriteTo(sys_stderr, error_capture, <<ErrOf(c), "\n">>)
    /\ snippet' = [snippet EXCEPT ![c].steps = @ + 1]
    /\ UNCHANGED <<sys_stdout, sys_stderr, injected, rc_pc, old_stdout, old_stderr,
                   output_capture, execution_locals, observed, rc_result>>
    /\ UNCHANGED <<driver_vars, dispatch_vars, parser_vars>>

\* x = ...: a binding at the top level of the snippet goes to its locals
SnippetBind(c) ==
    /\ SnippetRuns(c)
    /\ execution_locals' = [execution_locals EXCEPT ![c] = @ \cup {NameOf(c)}]
    /\ snippet' = [snippet EXCEPT ![c].steps = @ + 1]
    /\ UNCHANGED <<sys_stdout, sys_stderr, injected, rc_pc, old_stdout, old_stderr,
                   output_capture, error_capture, observed, rc_result>>
    /\ UNCHANGED <<driver_vars, dispatch_vars, parser_vars>>

\* json.x = ..., pd.set_option(...): a write to an injected module object
SnippetSetAttr(c) ==
    /\ SnippetRuns(c)
    /\ \E m \in {"json"} : m \in InjectedModules /\ injected' = injected \cup {<<m, NameOf(c)>>}
    /\ snippet' = [snippet EXCEPT ![c].steps = @ + 1]
    /\ UNCHANGED <<sys_stdout, sys_stderr, rc_pc, old_stdout, old_stderr,
                   output_capture, error_capture, execution_locals, observed, rc_result>>
    /\ UNCHANGED <<driver_vars, dispatch_vars, parser_vars>>

\* import m: the import statement calls __builtins__['__import__']
SnippetImport(c) ==
    /\ SnippetRuns(c)
    /\ "__import__" \in SafeBuiltins
    /\ \E m \in ImportedModules :
          snippet' = [snippet EXCEPT ![c].steps = @ + 1,
                                     ![c].caps = @ \cup CapabilityOf(m)]
    /\ UNCHANGED <<sys_stdout, sys_stderr, injected, rc_pc, old_stdout, old_stderr,
                   output_capture, error_capture, execution_locals, observed, rc_result>>
    /\ UNCHANGED <<driver_vars, dispatch_vars, parser_vars>>

\* the snippet ends, normally or with an exception that leaves exec
SnippetEnd(c) ==
    /\ rc_pc[c] = "running"
    /\ \E outcome \in SnippetOutcomes : snippet' = [snippet EXCEPT ![c].fault = outcome]
    /\ rc_pc' = [rc_pc EXCEPT ![c] = "exit_stderr"]
    /\ UNCHANGED <<sys_stdout, sys_stderr, injected, old_stdout, old_stderr,
                   output_capture, error_capture, execution_locals, observed, rc_result>>
    /\ UNCHANGED <<driver_vars, dispatch_vars, parser_vars>>

\* redirect_stderr.__exit__ (the inner manager leaves first), on every
\* way out of the with block
RestoreStderr(c) ==
    /\ rc_pc[c] = "exit_stderr"
    /\ sys_stderr' = old_stderr[c]
    /\ rc_pc' = [rc_pc EXCEPT ![c] = "exit_stdout"]
    /\ UNCHANGED <<sys_stdout, injected, old_stdout, old_stderr, output_capture,
                   error_capture, execution_locals, snippet, observed, rc_result>>
    /\ UNCHANGED <<driver_vars, dispatch_vars, parser_vars>>

\* redirect_stdout.__exit__
RestoreStdout(c) ==
    /\ rc_pc[c] = "exit_stdout"
    /\ sys_stdout' = old_stdout[c]
    /\ rc_pc' = [rc_pc EXCEPT ![c] = "finish"]
    /\ UNCHANGED <<sys_stderr, injected, old_stdout, old_stderr, output_capture,
                   error_capture, execution_locals, snippet, observed, rc_result>>
    /\ UNCHANGED <<driver_vars, dispatch_vars, parser_vars>>

\* what the snippet of call c did, as run_code sees it
SnippetExec(c) ==
    [raised |-> snippet[c].fault # "none",
     stdout |-> output_capture[c],
     stderr |-> error_capture[c],
     etype  |-> snippet[c].fault]

\* the rest of run_code: the success parts, or the except branch with its
\* print of the log line (to what sys.stdout is bound to by then), and the
\* return; an exception that is not an Exception leaves run_code
RunCodeReturn(c) ==
    /\ rc_pc[c] = "finish"
    /\ IF snippet[c].fault \in {"none"} \cup ExceptionTypes
       THEN /\ rc_result' = [rc_result EXCEPT ![c] = run_code(<<"<code>">>, SnippetExec(c))]
            /\ rc_pc' = [rc_pc EXCEPT ![c] = "returned"]
            /\ output_capture' =
                  IF snippet[c].fault = "none" THEN output_capture
                  ELSE WriteTo(sys_stdout, output_capture, <<"run_code execution error.", "\n">>)
       ELSE /\ rc_pc' = [rc_pc EXCEPT ![c] = "propagated"]
            /\ UNCHANGED <<rc_result, output_capture>>
    /\ UNCHANGED <<sys_stdout, sys_stderr, injected, old_stdout, old_stderr,
                   error_capture, execution_locals, snippet, observed>>
    /\ UNCHANGED <<driver_vars, dispatch_vars, parser_vars>>

NextS ==
    \E c \in Calls :
        \/ RunCodeStart(c)
        \/ RedirectStderr(c)
        \/ SnippetPrint(c)
        \/ SnippetWarn(c)
        \/ SnippetBind(c)
        \/ SnippetSetAttr(c)
        \/ SnippetImport(c)
        \/ SnippetEnd(c)
        \/ RestoreStderr(c)
        \/ RestoreStdout(c)
        \/ RunCodeReturn(c)

SpecS == Init /\ [][NextS]_vars

\* ---------------------------------------------------------------------
\* Properties of run_code
\* ---------------------------------------------------------------------
\* the text written while call c runs, by its snippet or by run_code
TextOf(c) == {OutOf(c), ErrOf(c)}

\* the text that calls other than c write
ForeignText(c) ==
    UNION {TextOf(d) : d \in Calls \ {c}} \cup {"run_code execution error."}

\* C12: under every interleaving of the run_code calls of two requests,
\* the stdout and stderr text in the payload a call returns contains
\* nothing written by the other call.
C12_OutputIsolated ==
    \A c \in Calls :
        rc_pc[c] = "returned" =>
            \A i \in 1..Len(rc_result[c]) : rc_result[c][i] \notin ForeignText(c)

\* C13: in every reachable state, while calls interleave and after they
\* are over, sys.stdout and sys.stderr are bound to what they were bound to
\* before any call, and the injected module objects are as they were.
C13_NoSharedWrite ==
    /\ sys_stdout = "console"
    /\ sys_stderr = "console"
    /\ injected = {}

\* the snippet of call c has begun
Started(c) == rc_pc[c] \notin {"idle", "enter_stderr"}

\* C14: the snippet of a call finds no name bound by the snippet of
\* another call, whether that call is over or still running: its locals
\* hold nothing when it begins and only its own bindings afterwards.
C14_FreshNamespace ==
    \A c \in Calls :
        /\ Started(c) => observed[c].names = {}
        /\ execution_locals[c] \subseteq {NameOf(c)}

\* the second of two sequential calls has begun after the first, whose
\* snippet bound a name, returned
C14_Witness ==
    /\ Started("B")
    /\ "A" \in observed["B"].after
    /\ NameOf("A") \in execution_locals["A"]
    /\ rc_pc["A"] = "returned"
    /\ NameOf("B") \in execution_locals["B"]

\* C15: a snippet that begins after another call is over finds what the
\* first snippet found: no name bound and the injected objects unchanged.
C15_NothingPersists ==
    \A c \in Calls :
        Started(c) /\ observed[c].after # {} =>
            /\ observed[c].names = {}
            /\ observed[c].injected = {}

\* C16: no snippet obtains a file, process or network capability.
C16_NoCapability ==
    \A c \in Calls : snippet[c].caps \cap {"file", "process", "network"} = {}

\* s occurs in t as a contiguous run of lexemes
Occurs(s, t) ==
    \E i \in 0..(Len(t) - Len(s)) : SubSeq(t, i + 1, i + Len(s)) = s

\* C17: a fault of a snippet never leaves run_code, and the payload
\* returned for it has the failure marker, the output captured before the
\* fault, the type name of the fault and its message.
C17_FaultNotPropagated ==
    /\ [](\A c \in Calls : rc_pc[c] # "propagated")
    /\ [][\A c \in Calls :
            rc_pc[c] = "finish" /\ rc_pc'[c] = "returned" /\ snippet[c].fault # "none" =>
               /\ HasFailedMarker(rc_result'[c])
               /\ Occurs(<<"--- Error Type ---", "\n", snippet[c].fault>>, rc_result'[c])
               /\ Occurs(<<"--- Error Message ---", "\n", "<exception message>">>, rc_result'[c])
               /\ Occurs(Strip(output_capture[c]), rc_result'[c])
               /\ Occurs(Strip(error_capture[c]), rc_result'[c])]_vars

\* ---------------------------------------------------------------------
\* execute_tool_call on its own
\* ---------------------------------------------------------------------
\* the fragments execute_tool_call is called with: those of the driver's
\* runs, and fragments without a name, without the pair of parentheses,
\* with the pair reversed and with unbalanced parentheses
DispatchFragments ==
    Fragments \cup
    {<<"make_chart">>,
     <<"make_chart", ")", "(">>,
     <<"make_chart", "(", "(", ")">>,
     <<"(", ")">>,
     <<"get_daily_report", "(", ")">>,
     <<"check_for_anomalies", "(", ")">>,
     <<"check_for_anomalies", "(", "(", ")">>,
     <<"check_for_anomalies", ")", "(">>,
     <<"display_chart", "(", "chart_type=", "'", "bar", "'", ",", "chart_data=", "'",
       "{", "\"labels\":1", ",", "\"data\":[5]", "}", "'", ")">>,
     <<"display_chart", "(", "chart_type=", "'", "pie", "'", ",", "chart_data=", "'",
       "{", "\"labels\":[\"Mon\"]", ",", "\"data\":[5]", "}", "'", ")">>,
     <<"display_chart", "(", "chart_type=", "'", "line", "'", ",", "title=", "'", "Trend", "'",
       ",", "chart_data=", "'", "{", "\"labels\":[\"Mon\"]", ",", "\"datasets\":[]", "}", "'", ")">>,
     <<"display_chart", "(", "chart_type=", "'", "bar", "'", ",", "chart_data=", "'", "[1]", "'", ")">>,
     <<"display_chart", "(", "chart_type=", "'", "bar", "'", ")">>,
     <<"run_code", "(", "code_string=", "'", "x", "\\", "'", "x", "\\n", "x", "'", ")">>,
     <<"run_code", "(", "code_string=", "'", "x", "\\", "'", "\\n", "'", "x", "'", ")">>,
     <<"run_code", "(", "code_string=", "\"", "x", "\\", "\"", "\\t", "x", "\\n", "\"", ")">>,
     <<"run_code", "(", "code_string=", "'", "x", "\\", "'", ")">>,
     <<"run_code", "(", "code_string=", "'", "\\n", "'", ")">>,
     <<"run_code", "(", "code_string=", "'", "x", "'", ",", "x", ")">>}

\* what the snippet or the collaborator of the called tool does: it raises
\* or not, and a snippet may print the words of the failure marker
HandlerOutcomes ==
    [raised : BOOLEAN,
     stdout : {<<>>, <<"2", "\n">>, <<"Execution Failed", "\n">>},
     stderr : {<<>>},
     etype  : {"NameError", "SystemExit"}]

\* execute_tool_call(merchant_id, call_function_str) is called
ReceiveToolCall ==
    /\ d_pc = "idle"
    /\ \E f \in DispatchFragments, ex \in HandlerOutcomes :
          /\ d_call' = f
          /\ d_ex' = ex
    /\ d_pc' = "called"
    /\ UNCHANGED <<d_branch, d_code, d_result>>
    /\ UNCHANGED <<driver_vars, sandbox_vars, parser_vars>>

\* the body of execute_tool_call: the payload it returns and the tool
\* branch it entered; an exception of the collaborator that is not an
\* Exception passes "except Exception" and leaves execute_tool_call
DispatchToolCall ==
    /\ d_pc = "called"
    /\ LET plan == ToolPlan(d_call)
       IN  /\ d_branch' = plan.branch
           /\ d_code' = IF plan.kind = "run_code" THEN plan.code ELSE None
           /\ IF plan.kind # "return" /\ d_ex.raised /\ d_ex.etype \notin ExceptionTypes
              THEN /\ d_pc' = "propagated"
                   /\ d_result' = None
              ELSE /\ d_pc' = "returned"
                   /\ d_result' = execute_tool_call(d_call, d_ex)
    /\ UNCHANGED <<d_call, d_ex>>
    /\ UNCHANGED <<driver_vars, sandbox_vars, parser_vars>>

NextD ==
    \/ ReceiveToolCall
    \/ DispatchToolCall

SpecD == Init /\ [][NextD]_vars

\* ---------------------------------------------------------------------
\* The response parser on its own
\* ---------------------------------------------------------------------
\* the most lexemes of a model text
MaxTextLen == 4

\* the lexemes of the model texts: the markers and the label in two
\* spellings, whitespace and a word
TextLexemes == AnswerMarks \cup CallMarks \cup ThinkingMarks \cup {" ", "\n", "plan"}

\* the model texts
Texts == UNION {[1..n -> TextLexemes] : n \in 0..MaxTextLen}

\* raw_response = gemini_service.generate_text(prompt)
ReceiveText ==
    /\ p_pc = "idle"
    /\ \E raw \in Texts : p_raw' = raw
    /\ p_pc' = "received"
    /\ UNCHANGED <<p_thinking, p_answer, p_call>>
    /\ UNCHANGED <<driver_vars, sandbox_vars, dispatch_vars>>

\* "Parse LLM Response": the two searches, the thinking part and the two
\* payloads
ParseText ==
    /\ p_pc = "received"
    /\ p_thinking' = ParseThinking(p_raw)
    /\ p_answer' = ParseAnswer(p_raw)
    /\ p_call' = ParseCall(p_raw)
    /\ p_pc' = "parsed"
    /\ UNCHANGED p_raw
    /\ UNCHANGED <<driver_vars, sandbox_vars, dispatch_vars>>

NextP ==
    \/ ReceiveText
    \/ ParseText

SpecP == Init /\ [][NextP]_vars

\* ---------------------------------------------------------------------
\* Properties of execute_tool_call
\* ---------------------------------------------------------------------
\* the payload is made by the failure template of execute_tool_call
IsFailureTemplate(p) ==
    /\ Len(p) = 9
    /\ SubSeq(p, 1, 4) = <<"--- Execution Failed ---", "\n", "--- Error Type ---", "\n">>
    /\ SubSeq(p, 6, 8) = <<"\n", "--- Error Message ---", "\n">>

\* the tool call that returned failed: execute_tool_call returned a
\* FormatError, ParameterError or ToolNotFound, or the snippet or the
\* collaborator raised
ToolCallFailed ==
    LET plan == ToolPlan(d_call)
    IN  IF plan.kind = "return" THEN IsFailureTemplate(plan.payload) ELSE d_ex.raised

\* C18: the payload execute_tool_call returns contains "Execution Failed"
\* exactly when the tool call failed.
C18_MarkerIffFailed ==
    d_pc = "returned" => (HasFailedMarker(d_result) <=> ToolCallFailed)

\* the function name of a fragment, NoName when it has none
FuncNameOf(s) ==
    IF Strip(s) = <<>> THEN NoName ELSE IdentOf(Head(Strip(s)))

\* the fragment has a name that is not the name of a tool
UnknownName(s) == FuncNameOf(s) \notin ToolNames \cup {NoName}

\* the first "(" after the name and the last ")" of the fragment
OpenParen(s) == FirstIn(Strip(s), {"("}, 2)
CloseParen(s) == LastIn(Strip(s), {")"})

\* the outer pair is there: both exist and the last ")" is not before the
\* first "("
HasOuterPair(s) ==
    OpenParen(s) # 0 /\ CloseParen(s) # 0 /\ CloseParen(s) >= OpenParen(s)

\* the number of lexemes of s that are c
CountOf(s, c) == Cardinality({i \in 1..Len(s) : s[i] = c})

\* the parentheses of the fragment are unbalanced
Unbalanced(s) == CountOf(s, "(") # CountOf(s, ")")

\* the type of a failure payload
ErrorTypeIs(p, errType) == IsFailureTemplate(p) /\ p[5] = errType

\* the call is over (it always returns for the fragments of C19 and C20)
DispatchOver == d_pc \in {"returned", "propagated"}

\* C19 as stated: every fragment with an unknown name gets a ToolNotFound
\* payload and no tool branch is entered.
C19_Original ==
    DispatchOver /\ UnknownName(d_call) =>
        /\ d_pc = "returned"
        /\ ErrorTypeIs(d_result, "ToolNotFound")
        /\ d_branch = "none"

\* C19 amended: a fragment with an unknown name gets a ToolNotFound payload
\* when its outer pair of parentheses is there and a FormatError payload
\* when it is not; no tool branch is entered in either case.
C19_UnknownName ==
    DispatchOver /\ UnknownName(d_call) =>
        /\ d_pc = "returned"
        /\ d_branch = "none"
        /\ HasFailedMarker(d_result)
        /\ IF HasOuterPair(d_call)
           THEN ErrorTypeIs(d_result, "ToolNotFound")
           ELSE ErrorTypeIs(d_result, "FormatError")

\* an unknown name with its pair of parentheses was answered
C19_Witness ==
    /\ d_pc = "returned"
    /\ UnknownName(d_call)
    /\ HasOuterPair(d_call)
    /\ ErrorTypeIs(d_result, "ToolNotFound")

\* C20 as stated: a fragment whose outer pair is missing or whose
\* parentheses are unbalanced gets a FormatError payload with the marker
\* and no tool branch is entered.
C20_Original ==
    DispatchOver /\ (~HasOuterPair(d_call) \/ Unbalanced(d_call)) =>
        /\ d_pc = "returned"
        /\ ErrorTypeIs(d_result, "FormatError")
        /\ HasFailedMarker(d_result)
        /\ d_branch = "none"

\* C20 amended: a fragment that has no function name, no "(" after the
\* name, no ")", or its last ")" before its first "(" gets a FormatError
\* payload with the marker and no tool branch is entered; the balance of
\* the parentheses between the outer pair is not examined.
C20_OuterPairMissing ==
    DispatchOver /\ (FuncNameOf(d_call) = NoName \/ ~HasOuterPair(d_call)) =>
        /\ d_pc = "returned"
        /\ ErrorTypeIs(d_result, "FormatError")
        /\ HasFailedMarker(d_result)
        /\ d_branch = "none"

\* a fragment of a known tool whose closing parenthesis is missing was
\* answered
C20_Witness ==
    /\ d_pc = "returned"
    /\ FuncNameOf(d_call) = "run_code"
    /\ OpenParen(d_call) # 0
    /\ CloseParen(d_call) = 0
    /\ ErrorTypeIs(d_result, "FormatError")

\* ---------------------------------------------------------------------
\* Properties
\* ---------------------------------------------------------------------
\* the steps a request can still take: three per remaining turn and the
\* rest of the current one
StepsLeft ==
    3 * (MAX_TURNS - turn)
    + (CASE pc = "call_llm" -> 3 [] pc = "parse" -> 2 [] pc = "process" -> 1 [] OTHER -> 0)

\* C1: whatever the model answers and the tools return, a request makes at
\* most MAX_TURNS model calls and returns exactly one response: it has
\* returned one response when it is over and none before, and every step
\* brings it nearer to the end, so that it is over after at most
\* 3 * MAX_TURNS + 3 steps.
C1_BoundedTermination ==
    /\ [](/\ llm_calls <= MAX_TURNS
          /\ pc \in {"call_llm", "parse", "process", "done"}
          /\ (pc = "done" => Len(response) = 1)
          /\ (pc # "done" => response = <<>>)
          /\ StepsLeft >= 0
          /\ (StepsLeft = 0 => pc = "done"))
    /\ [][StepsLeft' < StepsLeft]_vars

\* a request that used all its model calls and returned
C1_Witness == pc = "done" /\ llm_calls = MAX_TURNS /\ Len(response) = 1

\* C2: when every turn yields only a failing tool call, nothing is returned
\* before 10 model calls and 10 dispatches are made, no 11th is made, and
\* what is returned then is the stuck response, once.
C2_StuckAtTenTurns ==
    /\ [](/\ llm_calls <= 10 /\ tool_calls <= 10
          /\ (pc = "done" <=> response # <<>>)
          /\ (response # <<>> =>
                 /\ llm_calls = 10 /\ tool_calls = 10
                 /\ Len(response) = 1
                 /\ response[1].answer[1] = "Sorry, I got stuck processing that. Last thought: "
                 /\ response[1].chart_command = None)
          /\ (pc = "call_llm" /\ turn > 0 => HasFailedMarker(tool_result)))
    /\ [][StepsLeft' < StepsLeft /\ (pc = "process" => tool_calls' = tool_calls + 1)]_vars

\* the stuck response after ten failing dispatches
C2_Witness ==
    /\ pc = "done" /\ tool_calls = 10 /\ llm_calls = 10 /\ HasFailedMarker(tool_result)
    /\ response = <<[answer |-> <<"Sorry, I got stuck processing that. Last thought: ", "plan">>,
                     chart_command |-> None]>>

\* the parsed turn at hand has an answer / a tool call
HasAnswer == final_answer_text # None
HasCall == call_function_str # None

\* the tool call of the parsed turn names display_chart and opens its arguments
IsChartCall ==
    /\ Len(call_function_str) >= 2
    /\ call_function_str[1] = "display_chart"
    /\ \E k \in 2..Len(call_function_str) :
          /\ call_function_str[k] = "("
          /\ \A j \in 2..(k - 1) : call_function_str[j] \in WS

\* a chart command: the JSON object display_chart builds
IsChartCommand(s) ==
    /\ Len(s) >= 2
    /\ s[1] = "{" /\ s[2] = "\"type\":\"chart\""
    /\ \E i \in 1..Len(s) : s[i] \in {"\"chart_type\":\"bar\"", "\"chart_type\":\"line\""}

\* the answer text followed by a failure note
IsAnswerWithNote(answer, text) ==
    /\ Len(text) = Len(answer) + 3
    /\ SubSeq(text, 1, Len(answer)) = answer
    /\ text[Len(answer) + 1] = "\n" /\ text[Len(answer) + 2] = "\n"
    /\ text[Len(answer) + 3] \in {"[Chart display failed: Command parse error]",
                                  "[Chart display failed: Invalid command format]"}

\* the step taken from this state ends the request with one response
Returns == pc' = "done" /\ response = <<>> /\ Len(response') = 1

\* C3 as stated: a parsed turn with an answer and a tool call dispatches the
\* tool call on that turn and returns the answer with the chart command, or
\* the answer with a failure note; so every parsed turn is tool-call only,
\* answer only, answer plus chart tool call, or neither.
C3_Original ==
    [][pc = "process" /\ HasAnswer /\ HasCall =>
          /\ tool_calls' = tool_calls + 1
          /\ IsChartCall
          /\ Returns
          /\ \/ /\ IsChartCommand(response'[1].chart_command)
                /\ response'[1].answer = final_answer_text
             \/ /\ response'[1].chart_command = None
                /\ IsAnswerWithNote(final_answer_text, response'[1].answer)]_vars

\* C3 amended: a parsed turn with an answer and a tool call ends the request
\* on that turn without another model call.  The tool call is dispatched if
\* and only if it names display_chart followed by "(": then the response is
\* the answer with the chart command when the dispatch yields a chart
\* command, and the answer with an appended failure note when it yields a
\* failure payload.  Any other tool call is not dispatched and the answer is
\* returned alone.
C3_ChartPath ==
    [][pc = "process" /\ HasAnswer /\ HasCall =>
          /\ Returns
          /\ llm_calls' = llm_calls
          /\ IF IsChartCall
             THEN /\ tool_calls' = tool_calls + 1
                  /\ IF HasFailedMarker(tool_result')
                     THEN /\ response'[1].chart_command = None
                          /\ IsAnswerWithNote(final_answer_text, response'[1].answer)
                     ELSE /\ IsChartCommand(tool_result')
                          /\ response'[1] = [answer |-> final_answer_text,
                                             chart_command |-> tool_result']
             ELSE /\ tool_calls' = tool_calls
                  /\ tool_result' = tool_result
                  /\ response'[1] = [answer |-> final_answer_text,
                                     chart_command |-> None]]_vars

\* Scenario C: the answer with a bar chart command
C3_Witness ==
    /\ pc = "done" /\ HasAnswer /\ HasCall /\ tool_calls = 1
    /\ response = <<[answer |-> <<"Your sales were $120.">>, chart_command |-> tool_result]>>
    /\ IsChartCommand(tool_result)
    /\ \E i \in 1..Len(tool_result) : tool_result[i] = "\"chart_type\":\"bar\""

\* shown is what a prompt shows of text: all of it, or its leading lexemes
\* up to a long one that is cut
IsShownPrefix(shown, text) ==
    \/ shown = text /\ \A i \in 1..Len(text) : text[i] # "<2000 chars of output>"
    \/ \E n \in 1..Len(text) :
          /\ Len(shown) = n
          /\ \A i \in 1..(n - 1) : shown[i] = text[i] /\ text[i] # "<2000 chars of output>"
          /\ text[n] = "<2000 chars of output>" /\ shown[n] = "<cut output>"

C5_AnswerOnlyReturns ==
    /\ [][pc = "process" /\ HasAnswer /\ ~HasCall =>
             /\ Returns
             /\ response'[1] = [answer |-> final_answer_text, chart_command |-> None]
             /\ tool_calls' = tool_calls /\ llm_calls' = llm_calls
             /\ turn' = turn]_vars
    /\ [][pc # "done"]_vars
    /\ [](pc = "done" /\ turn = 0
             /\ raw_response = <<"ANSWER:", " ", "Your sales were $120.", "\n">> =>
                /\ response = <<[answer |-> <<"Your sales were $120.">>, chart_command |-> None]>>
                /\ llm_calls = 1 /\ tool_calls = 0)

\* Scenario B
C5_Witness ==
    /\ pc = "done" /\ turn = 0 /\ llm_calls = 1 /\ tool_calls = 0
    /\ raw_response = <<"ANSWER:", " ", "Your sales were $120.", "\n">>
    /\ response = <<[answer |-> <<"Your sales were $120.">>, chart_command |-> None]>>

\* the raw response has neither marker
NoMarker(raw) == \A i \in 1..Len(raw) : raw[i] \notin AnswerMarks \cup CallMarks

\* C6: a parsed turn whose response has neither an ANSWER nor a
\* CALL_FUNCTION marker ends the request on that turn, with no dispatch and
\* no further model call, and the response is the ambiguous one, carrying
\* the thinking parsed on that turn.
C6_NeitherIsAmbiguous ==
    /\ [][pc = "process" /\ NoMarker(raw_response) =>
             /\ Returns
             /\ tool_calls' = tool_calls /\ llm_calls' = llm_calls
             /\ response'[1].chart_command = None
             /\ response'[1].answer =
                   <<"Thinking: ">> \o current_thinking
                   \o <<"\n", "(Couldn't determine next step...)">>]_vars
    /\ [](pc \in {"process", "done"}
             /\ raw_response = <<"Thinking:", " ", "plan", "\n">> =>
                current_thinking = <<"plan">>)
    /\ [][pc = "done" => llm_calls' = llm_calls /\ tool_calls' = tool_calls]_vars

\* the ambiguous response to a model response that is thinking alone
C6_Witness ==
    /\ pc = "done" /\ gen_status = "text" /\ tool_calls = 0
    /\ raw_response = <<"Thinking:", " ", "plan", "\n">>
    /\ response = <<[answer |-> <<"Thinking: ", "plan", "\n", "(Couldn't determine next step...)">>,
                     chart_command |-> None]>>

\* the three messages of a request that ends without an answer
IsServiceErrorMsg(text) == text # <<>> /\ text[1] = "Sorry, error reaching AI service: "
IsStuckMsg(text) == text # <<>> /\ text[1] = "Sorry, I got stuck processing that. Last thought: "
IsAmbiguousMsg(text) == text # <<>> /\ text[1] = "Thinking: "

\* text has part as a run of consecutive lexemes
Contains(text, part) ==
    \E i \in 1..(Len(text) - Len(part) + 1) : SubSeq(text, i, i + Len(part) - 1) = part

\* C7 as stated: when the call of the Gemini client fails on a turn, the
\* request ends on that turn with the service-error response: the response
\* is not parsed, no tool is dispatched, no further model call is made.
C7_ServiceErrorEndsRequest ==
    gen_status = "error" =>
        /\ pc = "done"
        /\ Len(response) = 1
        /\ IsServiceErrorMsg(response[1].answer)
        /\ ~IsAmbiguousMsg(response[1].answer) /\ ~IsStuckMsg(response[1].answer)

\* C8 as stated: a request that ended after a failure of text generation
\* returned the service-error message, one that ended because the turns ran
\* out returned the stuck message, no other request returned either of the
\* two, the two differ, and each carries the thinking of the last parsed turn.
C8_FatalOutcomes ==
    pc = "done" =>
        LET msg == response[1].answer
            failed == gen_status \in {"error", "unavailable"}
            exhausted == turn = 10
        IN  /\ failed => IsServiceErrorMsg(msg) /\ ~IsStuckMsg(msg)
                         /\ Contains(msg, current_thinking)
            /\ exhausted => IsStuckMsg(msg) /\ ~IsServiceErrorMsg(msg)
                            /\ Contains(msg, current_thinking)
            /\ ~failed /\ ~exhausted => ~IsServiceErrorMsg(msg) /\ ~IsStuckMsg(msg)

\* the error type a failure payload names
ErrorTypeOf(payload) ==
    LET at == {i \in 1..(Len(payload) - 2) : payload[i] = "--- Error Type ---"}
    IN  IF at = {} THEN NoName ELSE payload[SetMin(at) + 2]

\* C9 as stated: a dispatch that yields a failure payload never ends the
\* request: the loop goes on and the payload is the provided data of the
\* next turn, for every tool and every turn with a dispatch.
C9_Original ==
    [][tool_calls' = tool_calls + 1 /\ HasFailedMarker(tool_result') =>
          /\ pc' = "call_llm" /\ response' = <<>>
          /\ provided_data' = tool_result']_vars

\* C9 amended: a FormatError, ParameterError, ToolNotFound or execution
\* failure of the dispatch of a tool-call-only turn is non-fatal: the turn
\* does not return, the payload becomes the provided data, and when a turn
\* remains the next prompt is built from it (it shows its leading 1000
\* characters, the failure marker among them).  A failure of display_chart
\* dispatched alongside an answer is not fed back: the request ends with
\* the answer and an appended failure note.
C9_FailureFedBack ==
    /\ [][tool_calls' = tool_calls + 1 /\ HasFailedMarker(tool_result') =>
             /\ ErrorTypeOf(tool_result') \in
                   {"FormatError", "ParameterError", "ToolNotFound", "NameError"}
             /\ IF HasAnswer
                THEN /\ Returns
                     /\ IsAnswerWithNote(final_answer_text, response'[1].answer)
                     /\ provided_data' = provided_data
                ELSE /\ pc' = "call_llm" /\ response' = <<>>
                     /\ turn' = turn + 1
                     /\ provided_data' = tool_result']_vars
    /\ [](pc = "parse" /\ turn > 0 /\ HasFailedMarker(tool_result) =>
             /\ prompt.kind = "intermediate"
             /\ IsShownPrefix(prompt.provided_data, tool_result)
             /\ HasFailedMarker(prompt.provided_data))

\* the ToolNotFound payload of the first turn in the prompt of the second
C9_Witness ==
    /\ pc = "parse" /\ turn = 1
    /\ ErrorTypeOf(tool_result) = "ToolNotFound"
    /\ HasFailedMarker(prompt.provided_data)
    /\ Len(prompt.provided_data) = Len(tool_result)
    /\ response = <<>>

\* a response that lets the caller see a failure
ShowsFailure(text) ==
    \/ HasFailedMarker(text)
    \/ \E i \in 1..Len(text) :
          text[i] \in {"[Chart display failed: Command parse error]",
                       "[Chart display failed: Invalid command format]",
                       "Error generating text: ", "AI service is unavailable.",
                       "AI could not generate a response for this request.",
                       "Sorry, error reaching AI service: "}

\* C10 as stated: every failure is seen afterwards: the failure payload of
\* a dispatch is in the next prompt or, when no prompt follows, in the
\* response; a failed model call is in the response.
C10_NoFailureDropped ==
    /\ (pc = "parse" /\ turn > 0 /\ HasFailedMarker(tool_result) =>
           HasFailedMarker(prompt.provided_data))
    /\ (pc = "done" /\ gen_status \in {"error", "unavailable", "blocked"} =>
           ShowsFailure(response[1].answer))
    /\ (pc = "done" /\ tool_calls = llm_calls /\ HasFailedMarker(tool_result) =>
           ShowsFailure(response[1].answer))

\* C11: tool calls are never pipelined: a turn dispatches at most one tool,
\* and a dispatch that follows another one happens only after a model call
\* has completed in between, whose prompt was built from the result of the
\* earlier dispatch (it shows its leading 1000 characters).
C11_NoPipelining ==
    /\ [](tool_calls <= llm_calls)
    /\ [][tool_calls' \in {tool_calls, tool_calls + 1}]_vars
    /\ [][tool_calls' = tool_calls + 1 =>
             /\ pc = "process" /\ raw_response # None
             /\ llm_calls = tool_calls + 1
             /\ (tool_calls > 0 =>
                    /\ prompt.kind = "intermediate"
                    /\ provided_data = tool_result
                    /\ IsShownPrefix(prompt.provided_data, tool_result))]_vars

\* a second dispatch, made after the second model call
C11_Witness ==
    /\ tool_calls = 2 /\ llm_calls = 2 /\ turn = 2 /\ pc = "call_llm"
    /\ provided_data = tool_result

\* ---------------------------------------------------------------------
\* Properties of display_chart and of the responses
\* ---------------------------------------------------------------------
\* the members whose value is a list
ListPairs == {"\"labels\":[\"Mon\"]", "\"data\":[5]", "\"datasets\":[]"}

\* the chart_data of a chart command has a member of this key, a list
HasListMember(s, key) ==
    \E i \in 1..Len(s) : s[i] \in ListPairs /\ KeyOf(s[i]) = key

\* C21: display_chart returns a chart command only for chart_type 'bar' or
\* 'line' and chart_data of shape {labels: list, data: list} or
\* {labels: list, datasets: list}, and a ParameterError payload for every
\* other input.
C21_ChartOnlyForValidShape ==
    d_pc = "returned" /\ d_branch = "display_chart" =>
        IF IsChartCommand(d_result)
        THEN /\ HasListMember(d_result, "labels")
             /\ HasListMember(d_result, "data") \/ HasListMember(d_result, "datasets")
        ELSE ErrorTypeIs(d_result, "ParameterError")

\* the value of the chart_data member of a chart command
ChartDataOf(cmd) ==
    LET k == FirstIn(cmd, {"\"chart_data\":"}, 1)
        ends == {j \in (k + 1)..Len(cmd) : JsonDepth(cmd, j) = JsonDepth(cmd, k)}
    IN  IF k = 0 \/ ends = {} THEN <<>> ELSE SubSeq(cmd, k + 1, SetMin(ends))

\* a chart command as the interface defines it
IsValidChartCommand(cmd) ==
    LET obj == JsonLoads(cmd)
        chart_data == JsonLoads(ChartDataOf(cmd))
    IN  /\ obj.ok /\ obj.isdict
        /\ "\"type\":\"chart\"" \in obj.pairs
        /\ "payload" \in obj.keys
        /\ \E i \in 1..Len(cmd) :
              cmd[i] \in {"\"chart_type\":\"bar\"", "\"chart_type\":\"line\""}
        /\ chart_data.ok /\ chart_data.isdict
        /\ "labels" \in chart_data.keys
        /\ "data" \in chart_data.keys \/ "datasets" \in chart_data.keys

\* C22: every response has an answer that is a string, and the chart
\* command of a response that has one has type "chart", chart_type bar or
\* line and chart_data with labels and with data or datasets.
C22_ResponseShape ==
    \A i \in 1..Len(response) :
        /\ response[i].answer # None
        /\ response[i].chart_command # None => IsValidChartCommand(response[i].chart_command)

\* a response with a chart command was returned
C22_Witness ==
    /\ pc = "done"
    /\ Len(response) = 1
    /\ response[1].chart_command # None
    /\ response[1].answer = <<"Your sales were $120.">>

\* ---------------------------------------------------------------------
\* Properties of the response parser
\* ---------------------------------------------------------------------
\* the positions of the lexemes of s that are in marks
Positions(s, marks) == {i \in 1..Len(s) : s[i] \in marks}

\* the text has one ANSWER: marker and no CALL_FUNCTION: marker
OneAnswerNoCall(raw) ==
    Cardinality(Positions(raw, AnswerMarks)) = 1 /\ Positions(raw, CallMarks) = {}

\* the text after position i up to the first later lexeme in stops, or to
\* the end of the text
SegmentAfter(s, i, stops) ==
    LET later == {j \in Positions(s, stops) : j > i}
    IN  SubSeq(s, i + 1, IF later = {} THEN Len(s) ELSE SetMin(later) - 1)

\* C23: of a text with one ANSWER: marker and no CALL_FUNCTION:
\* marker the answer is all the text after the marker, trimmed, and there
\* is no tool call.
C23_AnswerIsTrailingText ==
    p_pc = "parsed" /\ OneAnswerNoCall(p_raw) =>
        /\ p_answer = Strip(SubSeq(p_raw, SetMin(Positions(p_raw, AnswerMarks)) + 1, Len(p_raw)))
        /\ p_call = None

\* the three markers the searches know
AllMarks == AnswerMarks \cup CallMarks \cup ThinkingMarks

\* the text has both markers
HasBothMarkers(raw) ==
    Positions(raw, AnswerMarks) # {} /\ Positions(raw, CallMarks) # {}

\* the text with its answer section and its tool-call section exchanged:
\* what precedes the first of the two markers stays, then comes the section
\* of the later marker (to the end of the text), then that of the earlier
SwapSections(raw) ==
    LET a == SetMin(Positions(raw, AnswerMarks))
        c == SetMin(Positions(raw, CallMarks))
        first == IF a < c THEN a ELSE c
        second == IF a < c THEN c ELSE a
    IN  SubSeq(raw, 1, first - 1) \o SubSeq(raw, second, Len(raw))
        \o SubSeq(raw, first, second - 1)

\* C24: of a text with both markers each payload is the text from its
\* marker to the next marker or the end of the text, trimmed, and both are
\* what they are when the two sections come in the other order.
C24_BothPayloads ==
    p_pc = "parsed" /\ HasBothMarkers(p_raw) =>
        /\ p_answer = Strip(SegmentAfter(p_raw, SetMin(Positions(p_raw, AnswerMarks)), AllMarks))
        /\ p_call = Strip(SegmentAfter(p_raw, SetMin(Positions(p_raw, CallMarks)), AllMarks))
        /\ ParseAnswer(SwapSections(p_raw)) = p_answer
        /\ ParseCall(SwapSections(p_raw)) = p_call

\* the text before the earliest ANSWER: or CALL_FUNCTION: marker, in any
\* case, the whole text when there is none, trimmed
BeforeMarkers(raw) ==
    LET marks == Positions(raw, AnswerMarks \cup CallMarks)
    IN  Strip(SubSeq(raw, 1, IF marks = {} THEN Len(raw) ELSE SetMin(marks) - 1))

\* a text without its leading "Thinking:" label, if it has one, trimmed
WithoutLabel(s) ==
    IF s # <<>> /\ Head(s) \in ThinkingMarks THEN Strip(Tail(s)) ELSE s

\* C28: the thinking text is the text before the earliest marker, trimmed,
\* without one leading "Thinking:" label, and the placeholder when that is
\* empty.
C28_ThinkingText ==
    p_pc = "parsed" =>
        p_thinking = IF WithoutLabel(BeforeMarkers(p_raw)) = <<>>
                     THEN <<"(No thinking provided)">>
                     ELSE WithoutLabel(BeforeMarkers(p_raw))

\* a text with two labels before its marker was parsed: one label is left
C28_Witness ==
    /\ p_pc = "parsed"
    /\ p_raw = <<"thinking:", "Thinking:", "plan", "call_function:">>
    /\ p_thinking = <<"Thinking:", "plan">>

\* ---------------------------------------------------------------------
\* Properties of the code_string argument
\* ---------------------------------------------------------------------
\* the argument block of a fragment that has its outer pair
ParamsOf(s) == Strip(SubSeq(Strip(s), OpenParen(s) + 1, CloseParen(s) - 1))

\* the fragment names run_code and has its outer pair
IsRunCodeCall(s) == FuncNameOf(s) = "run_code" /\ HasOuterPair(s)

\* the value of code_string as the scan of the syntax parser delimits it:
\* from the quote that follows the first code_string= to the next quote of
\* the same kind that no escape character precedes; None without one
ScannedValue(params) ==
    LET i == FirstIn(params, {"code_string="}, 1)
        k == IF i = 0 THEN 0 ELSE FirstNonWs(params, i + 1)
        closing == {j \in (k + 1)..Len(params) : params[j] = params[k] /\ params[j - 1] # "\\"}
    IN  IF k = 0 \/ params[k] \notin {"'", "\""} \/ closing = {} THEN None
        ELSE SubSeq(params, k + 1, SetMin(closing) - 1)

\* the value holds an escaped quote and an escaped newline or tab
HasEscapes(value) ==
    /\ \E j \in 1..(Len(value) - 1) : value[j] = "\\" /\ value[j + 1] \in {"'", "\""}
    /\ \E j \in 1..Len(value) : value[j] \in {"\\n", "\\t"}

\* each escape sequence replaced by the character it denotes
RECURSIVE Literal(_)
Literal(s) ==
    IF s = <<>> THEN <<>>
    ELSE IF Len(s) >= 2 /\ s[1] = "\\" /\ s[2] \in {"'", "\""}
         THEN <<s[2]>> \o Literal(Tail(Tail(s)))
         ELSE <<CASE s[1] = "\\n" -> "\n" [] s[1] = "\\t" -> "\t" [] OTHER -> s[1]>>
              \o Literal(Tail(s))

\* C25 as stated: the code passed to the sandbox is the value between the
\* opening quote and its matching unescaped closing quote, with the escape
\* sequences replaced.
C25_Original ==
    DispatchOver /\ IsRunCodeCall(d_call)
    /\ ScannedValue(ParamsOf(d_call)) # None /\ HasEscapes(ScannedValue(ParamsOf(d_call))) =>
        d_code = Literal(ScannedValue(ParamsOf(d_call)))

\* the value of code_string as run_code's branch delimits it: from the
\* quote that follows code_string= to the same quote character at the end
\* of the argument block, whatever lies between; None without one
WholeValue(params) ==
    LET e == Len(params)
        cands == {i \in 1..Len(params) :
                    /\ params[i] = "code_string="
                    /\ LET k == FirstNonWs(params, i + 1)
                       IN  k # 0 /\ k < e /\ params[k] \in {"'", "\""} /\ params[k] = params[e]}
    IN  IF params = <<>> \/ cands = {} THEN None
        ELSE SubSeq(params, FirstNonWs(params, SetMin(cands) + 1) + 1, e - 1)

\* C25 amended: when the argument block ends with the quote character that
\* opens the value, the code passed to the sandbox is all the text between
\* the two, escaped or not, with the escape sequences replaced and the
\* result trimmed; when it does not, or the code is empty, a ParameterError
\* payload is returned and nothing is passed to the sandbox.
C25_CodePassed ==
    DispatchOver /\ IsRunCodeCall(d_call) =>
        LET value == WholeValue(ParamsOf(d_call))
        IN  /\ d_branch = "run_code"
            /\ IF value # None /\ Strip(Literal(value)) # <<>>
               THEN d_code = Strip(Literal(value))
               ELSE d_code = None /\ ErrorTypeIs(d_result, "ParameterError")

\* a value with an escaped quote and an escaped newline was passed
C25_Witness ==
    /\ d_pc = "returned"
    /\ d_call = <<"run_code", "(", "code_string=", "'", "x", "\\", "'", "x", "\\n", "x", "'", ")">>
    /\ d_code = <<"x", "'", "x", "\n", "x">>

\* ---------------------------------------------------------------------
\* Properties of the turns
\* ---------------------------------------------------------------------
\* C26: every turn makes one model call, and at most one dispatch, made at
\* the processing step of the turn from the fragment parsed out of that
\* turn's response; dispatches never outnumber model calls.
C26_OneCallOneDispatch ==
    /\ [](pc = "call_llm" => llm_calls = turn /\ tool_calls = turn)
    /\ [](pc \in {"parse", "process"} => llm_calls = turn + 1 /\ tool_calls = turn)
    /\ [](tool_calls <= llm_calls)
    /\ [][llm_calls' # llm_calls =>
             pc = "call_llm" /\ llm_calls' = llm_calls + 1 /\ pc' \in {"parse", "done"}]_vars
    /\ [][tool_calls' # tool_calls =>
             /\ pc = "process" /\ tool_calls' = tool_calls + 1
             /\ raw_response # None
             /\ call_function_str # None /\ call_function_str = ParseCall(raw_response)
             /\ pc' \in {"call_llm", "done"}
             /\ turn' = turn + 1 \/ pc' = "done"]_vars

\* the second turn's response has two CALL_FUNCTION markers and was parsed
\* into one fragment, after the one dispatch of the first turn
C26_Witness ==
    /\ pc = "process" /\ turn = 1
    /\ llm_calls = 2 /\ tool_calls = 1
    /\ Cardinality(Positions(raw_response, CallMarks)) = 2
    /\ Positions(call_function_str, CallMarks) # {}

\* C27: the prompt of turn 0 is the initial one; the prompt of a later
\* turn is the intermediate one, made of the thinking parsed in the turn
\* before and of the leading 1000 characters of the tool result of the turn
\* before; no prompt shows the values the two variables start with.
C27_PromptCarriesLastTurn ==
    /\ [](prompt.kind = "initial" => turn = 0)
    /\ [](prompt.kind = "intermediate" =>
             /\ turn > 0
             /\ prompt.previous_thinking # <<"No thinking yet.">>
             /\ prompt.provided_data # <<"Initial state. No data provided yet.">>)
    /\ [][llm_calls' # llm_calls =>
             IF turn = 0
             THEN prompt'.kind = "initial"
             ELSE /\ prompt'.kind = "intermediate"
                  /\ prompt'.previous_thinking = current_thinking
                  /\ tool_calls = turn
                  /\ IsShownPrefix(prompt'.provided_data, tool_result)]_vars
    /\ [][current_thinking' # current_thinking =>
             pc = "parse" /\ current_thinking' = ParseThinking(raw_response)]_vars
    /\ [][tool_result' # tool_result => pc = "process" /\ tool_calls' = tool_calls + 1]_vars

\* the second turn's prompt carries the first turn's thinking and the cut
\* output of the first turn's tool call
C27_Witness ==
    /\ pc = "parse" /\ turn = 1
    /\ prompt.kind = "intermediate"
    /\ prompt.previous_thinking = <<"plan">>
    /\ Len(tool_result) > Len(prompt.provided_data)
    /\ prompt.provided_data[Len(prompt.provided_data)] = "<cut output>"

C30_OnlyChartBesideAnswer ==
    [][pc = "process" /\ HasAnswer /\ HasCall =>
          /\ tool_calls' # tool_calls \/ tool_result' # tool_result =>
                FuncNameOf(call_function_str) = "display_chart"
          /\ FuncNameOf(call_function_str) \in ToolNames \ {"display_chart"} =>
                /\ tool_calls' = tool_calls
                /\ tool_result' = tool_result
                /\ sandbox_vars' = sandbox_vars
                /\ pc' = "done"
                /\ response' = <<[answer |-> final_answer_text, chart_command |-> None]>>]_vars

\* an answer that came with a run_code call: returned alone, nothing dispatched
C30_Witness ==
    /\ pc = "done" /\ HasAnswer /\ HasCall
    /\ FuncNameOf(call_function_str) = "run_code"
    /\ tool_calls = 0 /\ tool_result = None
    /\ response = <<[answer |-> <<"Your sales were $120.">>, chart_command |-> None]>>

====
